---- MODULE Spec2Model ----
(***************************************************************************)
(* Registration form with field validators (src/src/utils/validator.js),   *)
(* the age calculator (src/unnamed/part_000, src/src/module.js) and the    *)
(* React form controller (src/src/component/Form.jsx).                     *)
(*                                                                         *)
(* Conventions of the model                                                *)
(*  - a JavaScript string is a sequence of UTF-16 code units (integers);   *)
(*  - a JavaScript value is a record with a "tag" field;                   *)
(*  - a time value counts whole hours since 1970-01-01T00:00Z (the         *)
(*    milliseconds of the Date object, at the granularity of one hour);    *)
(*  - a validator's outcome is Returned or the object it throws.           *)
(***************************************************************************)
EXTENDS Integers, Sequences, FiniteSets, TLC

VARIABLES
    now,            \* the wall clock: what new Date() reads
    tz,             \* the local time zone offset of the runtime, in hours
    arg,            \* input handed to the function under test
    out,            \* outcome of each function under test, by name
    form,           \* Form: useState(initialState)
    formIsInitial,  \* Form: form is the very object initialState
    errors,         \* Form: useState({})
    isValid,        \* Form: useState(false)
    storage,        \* localStorage
    toasts,         \* react-toastify: what each toast id renders
    timers          \* pending setTimeout callbacks, each with its closure

vars == <<now, tz, arg, out, form, formIsInitial, errors, isValid, storage,
          toasts, timers>>

envVars == <<now, tz>>
callVars == <<arg, out>>
formVars == <<form, formIsInitial, errors, isValid, storage, toasts, timers>>

-----------------------------------------------------------------------------
(* Bounds of the model *)

MaxNameLen == 3
MaxPostLen == 6
MaxEmailLen == 6
SpanDays == 67
MaxSubmits == 2
MaxDayArg == 31

-----------------------------------------------------------------------------
(* JavaScript values *)

Undefined == [tag |-> "undefined"]
Null == [tag |-> "null"]
PlainObject == [tag |-> "object"]
Str(s) == [tag |-> "string", str |-> s]
Num(n) == [tag |-> "number", num |-> n]
DateAt(t) == [tag |-> "date", nan |-> FALSE, time |-> t]
InvalidDate == [tag |-> "date", nan |-> TRUE, time |-> 0]

\* typeof v
TypeOf(v) ==
    CASE v.tag = "string" -> "string"
      [] v.tag = "number" -> "number"
      [] v.tag = "undefined" -> "undefined"
      [] OTHER -> "object"

\* v instanceof Date
InstanceOfDate(v) == v.tag = "date"

\* isNaN(d.getTime())
IsNaNTime(d) == d.nan

\* A validator returns nothing, or throws {code, message}
Returned == [code |-> "none", message |-> "none"]
NotCalled == [code |-> "notcalled", message |-> "notcalled"]
Throw(c, m) == [code |-> c, message |-> m]

-----------------------------------------------------------------------------
(* Date: local calendar fields of a time value *)

\* Day number (days since 1970-01-01) of the calendar date y-m-d, m in 1..12
DaysFromCivil(y, m, d) ==
    LET yy == IF m <= 2 THEN y - 1 ELSE y
        era == yy \div 400
        yoe == yy - era * 400
        mp == (m + 9) % 12
        doy == (153 * mp + 2) \div 5 + d - 1
        doe == yoe * 365 + yoe \div 4 - yoe \div 100 + doy
    IN  era * 146097 + doe - 719468

\* Calendar date of a day number: [year, month (1..12), day]. The era (400
\* years), the day of the era, the year of the era, the day of the year (from
\* 1 March) and the month (from March) are found in turn, each from the ones
\* before it.
CivilFromDays(z) ==
    LET Civil(y, mp, d) ==
            [year |-> IF mp < 10 THEN y ELSE y + 1,
             month |-> IF mp < 10 THEN mp + 3 ELSE mp - 9,
             day |-> d]
        FromMonth(y, doy, mp) == Civil(y, mp, doy - (153 * mp + 2) \div 5 + 1)
        FromDayOfYear(y, doy) == FromMonth(y, doy, (5 * doy + 2) \div 153)
        FromYearOfEra(era, doe, yoe) ==
            FromDayOfYear(yoe + era * 400, doe - (365 * yoe + yoe \div 4 - yoe \div 100))
        FromDayOfEra(era, doe) ==
            FromYearOfEra(era, doe,
                (doe - doe \div 1460 + doe \div 36524 - doe \div 146096) \div 365)
        FromEra(z2, era) == FromDayOfEra(era, z2 - era * 146097)
        FromShifted(z2) == FromEra(z2, z2 \div 146097)
    IN  FromShifted(z + 719468)

\* The local day a time value falls on
LocalDay(t) == (t + tz) \div 24

\* Date.prototype.getFullYear / getMonth (0-based) / getDate, in local time
getFullYear(t) == CivilFromDays(LocalDay(t)).year
getMonth(t) == CivilFromDays(LocalDay(t)).month - 1
getDate(t) == CivilFromDays(LocalDay(t)).day

-----------------------------------------------------------------------------
(* Character classes of the regular expressions *)

\* \d
IsDigit(c) == c >= 48 /\ c <= 57

\* [A-Za-z]
IsAsciiLetter(c) == (c >= 65 /\ c <= 90) \/ (c >= 97 /\ c <= 122)

\* \s  (WhiteSpace and LineTerminator code units)
IsWhiteSpace(c) ==
    \/ c >= 9 /\ c <= 13
    \/ c = 32 \/ c = 160 \/ c = 5760
    \/ c >= 8192 /\ c <= 8202
    \/ c = 8232 \/ c = 8233 \/ c = 8239 \/ c = 8287 \/ c = 12288 \/ c = 65279

\* [A-Za-z U+00C0-U+00D6 U+00D8-U+00F6 U+00F8-U+00FF \-]
IdentityClass(c) ==
    \/ c >= 65 /\ c <= 90
    \/ c >= 97 /\ c <= 122
    \/ c >= 192 /\ c <= 214
    \/ c >= 216 /\ c <= 246
    \/ c >= 248 /\ c <= 255
    \/ c = 45

\* [A-Za-z U+00C0-U+00D6 U+00D8-U+00F6 U+00F8-U+00FF \s \-]
TownClass(c) ==
    \/ c >= 65 /\ c <= 90
    \/ c >= 97 /\ c <= 122
    \/ c >= 192 /\ c <= 214
    \/ c >= 216 /\ c <= 246
    \/ c >= 248 /\ c <= 255
    \/ IsWhiteSpace(c)
    \/ c = 45

\* [a-zA-Z0-9._-]
EmailLocalClass(c) ==
    \/ c >= 97 /\ c <= 122
    \/ c >= 65 /\ c <= 90
    \/ c >= 48 /\ c <= 57
    \/ c = 46 \/ c = 95 \/ c = 45

\* [a-zA-Z0-9.-]
EmailDomainClass(c) ==
    \/ c >= 97 /\ c <= 122
    \/ c >= 65 /\ c <= 90
    \/ c >= 48 /\ c <= 57
    \/ c = 46 \/ c = 45

\* every code unit of s[from..to] is in the class
AllIn(s, from, to, Class(_)) == \A k \in from..to : Class(s[k])

-----------------------------------------------------------------------------
(* The regular expressions, as RegExp.prototype.test matches them *)

\* /^\d{5}$/
RePostCode(s) == Len(s) = 5 /\ AllIn(s, 1, 5, IsDigit)

\* /<[^>]*/  : anywhere in s, a '<' and then a (longest, possibly empty) run
\* of code units other than '>'
ReOpenTag(s) ==
    \E i \in 1..Len(s) :
        /\ s[i] = 60
        /\ \E j \in i..Len(s) : \A k \in (i + 1)..j : s[k] # 62

\* /^[A-Za-z...\-]+$/
ReIdentity(s) == Len(s) >= 1 /\ AllIn(s, 1, Len(s), IdentityClass)

\* /^[A-Za-z...\s\-]+$/
ReTown(s) == Len(s) >= 1 /\ AllIn(s, 1, Len(s), TownClass)

\* /^[a-zA-Z0-9._-]+@[a-zA-Z0-9.-]+\.[a-zA-Z]{2,}$/ : some split of s into
\* local part, '@', domain, '.', top-level part matches
ReEmail(s) ==
    \E i \in 2..Len(s) : \E j \in (i + 2)..Len(s) :
        /\ AllIn(s, 1, i - 1, EmailLocalClass)
        /\ s[i] = 64
        /\ AllIn(s, i + 1, j - 1, EmailDomainClass)
        /\ s[j] = 46
        /\ Len(s) - j >= 2
        /\ AllIn(s, j + 1, Len(s), IsAsciiLetter)

-----------------------------------------------------------------------------
(* String(v), the coercion RegExp.prototype.test applies to its argument *)

RECURSIVE DecimalDigits(_)
DecimalDigits(n) ==
    IF n < 10 THEN <<48 + n>> ELSE Append(DecimalDigits(n \div 10), 48 + (n % 10))

JsToString(v) ==
    CASE v.tag = "string" -> v.str
      [] v.tag = "number" -> DecimalDigits(v.num)
      [] v.tag = "undefined" -> <<117, 110, 100, 101, 102, 105, 110, 101, 100>>
      [] v.tag = "null" -> <<110, 117, 108, 108>>
      [] OTHER -> <<91, 111, 98, 106, 101, 99, 116, 32, 79, 98, 106, 101, 99, 116, 93>>

-----------------------------------------------------------------------------
(* src/src/utils/validator.js *)

MinAge == 18

validateAge_AnniversaryNotCounted(birth) ==
    IF ~InstanceOfDate(birth) \/ IsNaNTime(birth)
    THEN Throw("INVALID_DATE", "Birth date is invalid")
    ELSE IF birth.time > now
    THEN Throw("INVALID_DATE", "Birth date cannot be in the future")
    ELSE LET hasHadBirthday ==
                 \/ getMonth(now) > getMonth(birth.time)
                 \/ /\ getMonth(now) = getMonth(birth.time)
                    /\ getDate(now) > getDate(birth.time)
             age == IF ~hasHadBirthday
                    THEN getFullYear(now) - getFullYear(birth.time) - 1
                    ELSE getFullYear(now) - getFullYear(birth.time)
         IN  IF age < MinAge
             THEN Throw("INVALID_AGE", "Must be at least 18 years old")
             ELSE Returned

validateAge_AgeCheckedFirst(birth) ==
    IF ~InstanceOfDate(birth) \/ IsNaNTime(birth)
    THEN Throw("INVALID_DATE", "Birth date is invalid")
    ELSE LET hasHadBirthday ==
                 \/ getMonth(now) > getMonth(birth.time)
                 \/ /\ getMonth(now) = getMonth(birth.time)
                    /\ getDate(now) >= getDate(birth.time)
             age == IF ~hasHadBirthday
                    THEN getFullYear(now) - getFullYear(birth.time) - 1
                    ELSE getFullYear(now) - getFullYear(birth.time)
         IN  IF age < MinAge
             THEN Throw("INVALID_AGE", "Must be at least 18 years old")
             ELSE IF birth.time > now
             THEN Throw("INVALID_DATE", "Birth date cannot be in the future")
             ELSE Returned

validateAge_MonthIgnored(birth) ==
    IF ~InstanceOfDate(birth) \/ IsNaNTime(birth)
    THEN Throw("INVALID_DATE", "Birth date is invalid")
    ELSE IF birth.time > now
    THEN Throw("INVALID_DATE", "Birth date cannot be in the future")
    ELSE LET hasHadBirthday == getDate(now) >= getDate(birth.time)
             age == IF ~hasHadBirthday
                    THEN getFullYear(now) - getFullYear(birth.time) - 1
                    ELSE getFullYear(now) - getFullYear(birth.time)
         IN  IF age < MinAge
             THEN Throw("INVALID_AGE", "Must be at least 18 years old")
             ELSE Returned

validateAge(birth) ==
    IF ~InstanceOfDate(birth) \/ IsNaNTime(birth)
    THEN Throw("INVALID_DATE", "Birth date is invalid")
    ELSE IF birth.time > now
    THEN Throw("INVALID_DATE", "Birth date cannot be in the future")
    ELSE LET hasHadBirthday ==
                 \/ getMonth(now) > getMonth(birth.time)
                 \/ /\ getMonth(now) = getMonth(birth.time)
                    /\ getDate(now) >= getDate(birth.time)
             age == IF ~hasHadBirthday
                    THEN getFullYear(now) - getFullYear(birth.time) - 1
                    ELSE getFullYear(now) - getFullYear(birth.time)
         IN  IF age < MinAge
             THEN Throw("INVALID_AGE", "Must be at least 18 years old")
             ELSE Returned

validatePostCode_NoTypeCheck(pc) ==
    IF ~RePostCode(JsToString(pc))
    THEN Throw("INVALID_POST_CODE", "Invalid post code")
    ELSE Returned

validatePostCode(pc) ==
    IF TypeOf(pc) # "string" \/ ~RePostCode(pc.str)
    THEN Throw("INVALID_POST_CODE", "Invalid post code")
    ELSE Returned

validateIdentity_CharsetCheckedFirst(name) ==
    IF TypeOf(name) # "string"
    THEN Throw("INVALID_IDENTITY", "Invalid name")
    ELSE IF ~ReIdentity(name.str)
    THEN Throw("INVALID_IDENTITY", "Invalid characters in name")
    ELSE IF ReOpenTag(name.str)
    THEN Throw("INVALID_IDENTITY", "XSS detected")
    ELSE Returned

validateIdentity_EmptyAccepted(name) ==
    IF TypeOf(name) # "string"
    THEN Throw("INVALID_IDENTITY", "Invalid name")
    ELSE IF ReOpenTag(name.str)
    THEN Throw("INVALID_IDENTITY", "XSS detected")
    ELSE IF ~AllIn(name.str, 1, Len(name.str), IdentityClass)
    THEN Throw("INVALID_IDENTITY", "Invalid characters in name")
    ELSE Returned

validateIdentity(name) ==
    IF TypeOf(name) # "string"
    THEN Throw("INVALID_IDENTITY", "Invalid name")
    ELSE IF ReOpenTag(name.str)
    THEN Throw("INVALID_IDENTITY", "XSS detected")
    ELSE IF ~ReIdentity(name.str)
    THEN Throw("INVALID_IDENTITY", "Invalid characters in name")
    ELSE Returned

validateEmail_NoStartAnchor(email) ==
    IF \/ TypeOf(email) # "string"
       \/ ~(\E k \in 1..Len(email.str) : ReEmail(SubSeq(email.str, k, Len(email.str))))
    THEN Throw("INVALID_EMAIL", "Invalid email format")
    ELSE Returned

validateEmail(email) ==
    IF TypeOf(email) # "string" \/ ~ReEmail(email.str)
    THEN Throw("INVALID_EMAIL", "Invalid email format")
    ELSE Returned

validateTown_NoTypeCheck(town) ==
    IF ~ReTown(JsToString(town))
    THEN Throw("INVALID_TOWN", "Invalid town name")
    ELSE Returned

validateTown(town) ==
    IF TypeOf(town) # "string" \/ ~ReTown(town.str)
    THEN Throw("INVALID_TOWN", "Invalid town name")
    ELSE Returned

-----------------------------------------------------------------------------
(* src/unnamed/part_000: calculateAge(p, currentDate) *)

\* the object literal { birth: v }
Person(v) == [tag |-> "object", birth |-> v]

\* !v
IsFalsy(v) ==
    \/ v.tag \in {"undefined", "null"}
    \/ v.tag = "number" /\ v.num = 0
    \/ v.tag = "string" /\ v.str = <<>>

\* "birth" in p, for an object p
HasBirth(p) == "birth" \in DOMAIN p

\* new Date(year, monthIndex, day): local midnight of the day reached by
\* counting day - 1 days on from the first of the month, so that a day past
\* the end of the month rolls over into the next one
NewDateFields(year, monthIndex, day) ==
    DateAt((DaysFromCivil(year + monthIndex \div 12, (monthIndex % 12) + 1, 1) + day - 1) * 24
            - tz)

\* new Error(message), and the TypeError of the in operator on a primitive
NewError(message) == [name |-> "Error", message |-> message]
InTypeError == [name |-> "TypeError", message |-> "Cannot use 'in' operator"]

calculateAge_NoBirthFieldCheck(p, currentDate) ==
    IF IsFalsy(p) THEN NewError("missing param p")
    ELSE IF p.tag \in {"number", "string"} THEN InTypeError
    ELSE IF ~HasBirth(p) \/ ~InstanceOfDate(p.birth) \/ IsNaNTime(p.birth)
    THEN NewError("birth must be a valid Date")
    ELSE IF getFullYear(p.birth.time) < 1970 THEN NewError("invalid date")
    ELSE IF p.birth.time > currentDate.time THEN NewError("invalid date")
    ELSE LET existingDate ==
                 NewDateFields(getFullYear(p.birth.time), getMonth(p.birth.time),
                               getDate(p.birth.time))
         IN  IF \/ getFullYear(existingDate.time) # getFullYear(p.birth.time)
                \/ getMonth(existingDate.time) # getMonth(p.birth.time)
                \/ getDate(existingDate.time) # getDate(p.birth.time)
             THEN NewError("invalid date")
             ELSE LET hasHadBirthday ==
                          \/ getMonth(currentDate.time) > getMonth(p.birth.time)
                          \/ /\ getMonth(currentDate.time) = getMonth(p.birth.time)
                             /\ getDate(currentDate.time) >= getDate(p.birth.time)
                  IN  Num(getFullYear(currentDate.time) - getFullYear(p.birth.time)
                            - (IF hasHadBirthday THEN 0 ELSE 1))

calculateAge_AnniversaryNotCounted(p, currentDate) ==
    IF IsFalsy(p) THEN NewError("missing param p")
    ELSE IF p.tag \in {"number", "string"} THEN InTypeError
    ELSE IF ~HasBirth(p) THEN NewError("missing birth field")
    ELSE IF ~InstanceOfDate(p.birth) \/ IsNaNTime(p.birth)
    THEN NewError("birth must be a valid Date")
    ELSE IF getFullYear(p.birth.time) < 1970 THEN NewError("invalid date")
    ELSE IF p.birth.time > currentDate.time THEN NewError("invalid date")
    ELSE LET existingDate ==
                 NewDateFields(getFullYear(p.birth.time), getMonth(p.birth.time),
                               getDate(p.birth.time))
         IN  IF \/ getFullYear(existingDate.time) # getFullYear(p.birth.time)
                \/ getMonth(existingDate.time) # getMonth(p.birth.time)
                \/ getDate(existingDate.time) # getDate(p.birth.time)
             THEN NewError("invalid date")
             ELSE LET hasHadBirthday ==
                          \/ getMonth(currentDate.time) > getMonth(p.birth.time)
                          \/ /\ getMonth(currentDate.time) = getMonth(p.birth.time)
                             /\ getDate(currentDate.time) > getDate(p.birth.time)
                  IN  Num(getFullYear(currentDate.time) - getFullYear(p.birth.time)
                            - (IF hasHadBirthday THEN 0 ELSE 1))

\* The outcome of calculateAge(p, currentDate): the number returned or the
\* error thrown
calculateAge(p, currentDate) ==
    IF IsFalsy(p) THEN NewError("missing param p")
    ELSE IF p.tag \in {"number", "string"} THEN InTypeError
    ELSE IF ~HasBirth(p) THEN NewError("missing birth field")
    ELSE IF ~InstanceOfDate(p.birth) \/ IsNaNTime(p.birth)
    THEN NewError("birth must be a valid Date")
    ELSE IF getFullYear(p.birth.time) < 1970 THEN NewError("invalid date")
    ELSE IF p.birth.time > currentDate.time THEN NewError("invalid date")
    ELSE LET existingDate ==
                 NewDateFields(getFullYear(p.birth.time), getMonth(p.birth.time),
                               getDate(p.birth.time))
         IN  IF \/ getFullYear(existingDate.time) # getFullYear(p.birth.time)
                \/ getMonth(existingDate.time) # getMonth(p.birth.time)
                \/ getDate(existingDate.time) # getDate(p.birth.time)
             THEN NewError("invalid date")
             ELSE LET hasHadBirthday ==
                          \/ getMonth(currentDate.time) > getMonth(p.birth.time)
                          \/ /\ getMonth(currentDate.time) = getMonth(p.birth.time)
                             /\ getDate(currentDate.time) >= getDate(p.birth.time)
                  IN  Num(getFullYear(currentDate.time) - getFullYear(p.birth.time)
                            - (IF hasHadBirthday THEN 0 ELSE 1))

-----------------------------------------------------------------------------
(* src/src/module.js: calculateAge(p), the reference date read from the clock *)

\* Date.prototype.getUTCFullYear
getUTCFullYear(t) == CivilFromDays(t \div 24).year

\* Math.abs
Abs(n) == IF n < 0 THEN 0 - n ELSE n

moduleCalculateAge_NoEpochGuard(p) ==
    IF IsFalsy(p) THEN NewError("missing param p")
    ELSE IF p.tag \in {"number", "string"} THEN InTypeError
    ELSE IF ~HasBirth(p) THEN NewError("missing birth field")
    ELSE IF ~InstanceOfDate(p.birth) \/ IsNaNTime(p.birth)
    THEN NewError("birth must be a valid Date")
    ELSE IF p.birth.time > now THEN NewError("invalid date")
    ELSE LET existingDate ==
                 NewDateFields(getFullYear(p.birth.time), getMonth(p.birth.time),
                               getDate(p.birth.time))
         IN  IF \/ getFullYear(existingDate.time) # getFullYear(p.birth.time)
                \/ getMonth(existingDate.time) # getMonth(p.birth.time)
                \/ getDate(existingDate.time) # getDate(p.birth.time)
             THEN NewError("invalid date")
             ELSE Num(Abs(getUTCFullYear(now - p.birth.time) - 1970))

\* The outcome of module.js's calculateAge(p): now is new Date(), and the age
\* is the UTC year of the Date built from now - birth, less 1970
moduleCalculateAge(p) ==
    IF IsFalsy(p) THEN NewError("missing param p")
    ELSE IF p.tag \in {"number", "string"} THEN InTypeError
    ELSE IF ~HasBirth(p) THEN NewError("missing birth field")
    ELSE IF ~InstanceOfDate(p.birth) \/ IsNaNTime(p.birth)
    THEN NewError("birth must be a valid Date")
    ELSE IF getFullYear(p.birth.time) < 1970 THEN NewError("invalid date")
    ELSE IF p.birth.time > now THEN NewError("invalid date")
    ELSE LET existingDate ==
                 NewDateFields(getFullYear(p.birth.time), getMonth(p.birth.time),
                               getDate(p.birth.time))
         IN  IF \/ getFullYear(existingDate.time) # getFullYear(p.birth.time)
                \/ getMonth(existingDate.time) # getMonth(p.birth.time)
                \/ getDate(existingDate.time) # getDate(p.birth.time)
             THEN NewError("invalid date")
             ELSE Num(Abs(getUTCFullYear(now - p.birth.time) - 1970))

-----------------------------------------------------------------------------
(* String.prototype.trim, new Date(string), JSON.stringify *)

\* strip the leading white space
RECURSIVE TrimStart(_)
TrimStart(s) ==
    IF s # <<>> /\ IsWhiteSpace(Head(s)) THEN TrimStart(Tail(s)) ELSE s

\* strip the trailing white space
RECURSIVE TrimEnd(_)
TrimEnd(s) ==
    IF s # <<>> /\ IsWhiteSpace(s[Len(s)]) THEN TrimEnd(SubSeq(s, 1, Len(s) - 1)) ELSE s

\* String(value).trim(): strip leading and trailing white space
Trim(s) == TrimEnd(TrimStart(s))

\* value of the decimal digits s[from..to]
RECURSIVE DecimalValue(_, _, _)
DecimalValue(s, from, to) ==
    IF to < from THEN 0 ELSE DecimalValue(s, from, to - 1) * 10 + (s[to] - 48)

\* number of days of month m (1..12) of year y
DaysInMonth(y, m) ==
    IF m = 12 THEN 31 ELSE DaysFromCivil(y, m + 1, 1) - DaysFromCivil(y, m, 1)

\* new Date(value) for the date-only form YYYY-MM-DD, which is read as UTC
\* midnight; a string that is no such calendar date gives an invalid Date
NewDate(value) ==
    IF /\ Len(value) = 10
       /\ value[5] = 45 /\ value[8] = 45
       /\ \A k \in {1, 2, 3, 4, 6, 7, 9, 10} : IsDigit(value[k])
    THEN LET y == DecimalValue(value, 1, 4)
             m == DecimalValue(value, 6, 7)
             d == DecimalValue(value, 9, 10)
         IN  IF m \in 1..12 /\ d >= 1 /\ d <= DaysInMonth(y, m)
             THEN DateAt(DaysFromCivil(y, m, d) * 24)
             ELSE InvalidDate
    ELSE InvalidDate

\* one lower-case hexadecimal digit
HexDigit(n) == IF n < 10 THEN 48 + n ELSE 87 + n

\* a surrogate code unit that is not half of a pair
IsLoneSurrogate(s, k) ==
    \/ /\ s[k] >= 55296 /\ s[k] <= 56319
       /\ ~(k < Len(s) /\ s[k + 1] >= 56320 /\ s[k + 1] <= 57343)
    \/ /\ s[k] >= 56320 /\ s[k] <= 57343
       /\ ~(k > 1 /\ s[k - 1] >= 55296 /\ s[k - 1] <= 56319)

QuoteUnit_NoControlEscape(s, k) ==
    LET c == s[k] IN
    CASE c = 34 -> <<92, 34>>
      [] c = 92 -> <<92, 92>>
      [] OTHER -> <<c>>

\* QuoteJSONString: the text of the code unit s[k] inside a JSON string
QuoteUnit(s, k) ==
    LET c == s[k] IN
    CASE c = 8 -> <<92, 98>>
      [] c = 9 -> <<92, 116>>
      [] c = 10 -> <<92, 110>>
      [] c = 12 -> <<92, 102>>
      [] c = 13 -> <<92, 114>>
      [] c = 34 -> <<92, 34>>
      [] c = 92 -> <<92, 92>>
      [] c < 32 \/ IsLoneSurrogate(s, k) ->
            <<92, 117, HexDigit(c \div 4096), HexDigit((c \div 256) % 16),
              HexDigit((c \div 16) % 16), HexDigit(c % 16)>>
      [] OTHER -> <<c>>

RECURSIVE QuoteBody(_, _)
QuoteBody(s, k) == IF k > Len(s) THEN <<>> ELSE QuoteUnit(s, k) \o QuoteBody(s, k + 1)

\* QuoteJSONString(s)
QuoteJSONString(s) == <<34>> \o QuoteBody(s, 1) \o <<34>>

-----------------------------------------------------------------------------
(* src/src/component/Form.jsx *)

\* the keys of initialState, in insertion order
Fields == <<"lastname", "firstname", "email", "birth", "postCode", "town">>
FieldNames == {Fields[k] : k \in 1..Len(Fields)}

\* the code units of a key
KeyUnits(name) ==
    CASE name = "lastname" -> <<108, 97, 115, 116, 110, 97, 109, 101>>
      [] name = "firstname" -> <<102, 105, 114, 115, 116, 110, 97, 109, 101>>
      [] name = "email" -> <<101, 109, 97, 105, 108>>
      [] name = "birth" -> <<98, 105, 114, 116, 104>>
      [] name = "postCode" -> <<112, 111, 115, 116, 67, 111, 100, 101>>
      [] name = "town" -> <<116, 111, 119, 110>>

initialState == [name \in FieldNames |-> <<>>]

\* JSON.stringify(form): the members in key order, no white space
RECURSIVE StringifyMembers(_, _)
StringifyMembers(f, k) ==
    IF k > Len(Fields) THEN <<>>
    ELSE (IF k > 1 THEN <<44>> ELSE <<>>)
         \o QuoteJSONString(KeyUnits(Fields[k])) \o <<58>>
         \o QuoteJSONString(f[Fields[k]])
         \o StringifyMembers(f, k + 1)

JSONStringify(f) == <<123>> \o StringifyMembers(f, 1) \o <<125>>

\* what a field shows when it has no error
NoError == "undefined"

\* (err && (err.message || err.code)) || String(err)
ErrorText(err) == IF err.message # "" THEN err.message ELSE err.code

\* try { ... } catch (err) { return ... }: what validateField returns when its
\* try block ended as outcome
Caught(outcome) == IF outcome = Returned THEN NoError ELSE ErrorText(outcome)

validateField(name, value) ==
    Caught(CASE name = "email" -> validateEmail(Str(value))
             [] name \in {"lastname", "firstname"} -> validateIdentity(Str(value))
             [] name = "birth" ->
                   IF value = <<>>
                   THEN Throw("", "Birth is required")
                   ELSE validateAge(NewDate(value))
             [] name = "postCode" -> validatePostCode(Str(value))
             [] name = "town" -> validateTown(Str(value))
             [] OTHER -> Returned)

IsBlank_NoTrim(value) == value = <<>>

\* value === '' || ... || String(value).trim() === ''
IsBlank(value) == value = <<>> \/ Trim(value) = <<>>

\* validateForm() run by a closure that holds the form f: what it hands to
\* setErrors and setIsValid, and what it returns
validateForm(f) ==
    LET entry(name) ==
            IF IsBlank(f[name]) THEN "This field is required"
            ELSE validateField(name, f[name])
        \* newErrors holds the entries that are an error text
        Collected(entries) ==
            [name \in {n \in FieldNames : entries[n] # NoError} |-> entries[name]]
        Result(newErrors) ==
            [newErrors |-> newErrors,
             allFilled |-> \A name \in FieldNames : ~IsBlank(f[name]),
             noErrors |-> DOMAIN newErrors = {}]
    IN  Result(Collected([name \in FieldNames |-> entry(name)]))

\* setErrors(newErrors) and setIsValid(allFilled && noErrors) of the
\* validateForm() that returned r, once rendered
Validated(r) ==
    /\ errors' = r.newErrors
    /\ isValid' = (r.allFilled /\ r.noErrors)

\* localStorage.setItem(key, value)
setItem(store, key, value) ==
    [k \in DOMAIN store \cup {key} |-> IF k = key THEN value ELSE store[k]]

\* toast.loading('Submitting form...') and the toast.update(id, {...}) options
LoadingToast == [render |-> "Submitting form...", type |-> "default", isLoading |-> TRUE]
SuccessToast ==
    [render |-> "Form successfully submitted!", type |-> "success", isLoading |-> FALSE]

\* The component once mounted: the three useState cells, and the effect of the
\* first render, which runs validateForm() on initialState
FormMounted ==
    /\ form = initialState
    /\ formIsInitial = TRUE
    /\ LET FirstEffect(r) ==
               /\ errors = r.newErrors
               /\ isValid = (r.allFilled /\ r.noErrors)
       IN  FirstEffect(validateForm(initialState))
    /\ storage = [k \in {} |-> <<>>]
    /\ toasts = <<>>
    /\ timers = {}

\* handleChange, then the render it causes and the effect on [form]: the
\* updater always builds a new object, so the effect always runs
handleChange(name, value) ==
    LET next == [form EXCEPT ![name] = value]
    IN  /\ form' = next
        /\ formIsInitial' = FALSE
        /\ Validated(validateForm(next))
        /\ UNCHANGED <<storage, toasts, timers, envVars, callVars>>

\* onBlur of a field: setErrors(prev => ({...prev, [field]: err})) is queued
\* first, then validateForm() queues setErrors(newErrors), which replaces it
onBlur(field) ==
    LET err == validateField(field, form[field])
        merged == [k \in DOMAIN errors \cup {field} |->
                      IF k = field THEN err ELSE errors[k]]
        \* the updates queued for errors, applied in order by the render
        Rendered(r, queue) ==
            /\ errors' = queue[Len(queue)]
            /\ isValid' = (r.allFilled /\ r.noErrors)
        Queued(r) == Rendered(r, <<merged, r.newErrors>>)
    IN  /\ Queued(validateForm(form))
        /\ UNCHANGED <<form, formIsInitial, storage, toasts, timers, envVars, callVars>>

handleSubmit_CancelsPending ==
    LET id == Len(toasts) + 1
        After(r) ==
            /\ Validated(r)
            /\ IF ~r.allFilled \/ ~r.noErrors
               THEN UNCHANGED <<storage, toasts, timers>>
               ELSE /\ Len(toasts) < MaxSubmits
                    /\ storage' = setItem(storage, "user", JSONStringify(form))
                    /\ toasts' = Append(toasts, LoadingToast)
                    /\ timers' = {[id |-> id, form |-> form]}
    IN  /\ After(validateForm(form))
        /\ UNCHANGED <<form, formIsInitial, envVars, callVars>>

handleSubmit_NoEarlyReturn ==
    LET id == Len(toasts) + 1
        After(r) ==
            /\ Validated(r)
            /\ Len(toasts) < MaxSubmits
            /\ storage' = setItem(storage, "user", JSONStringify(form))
            /\ toasts' = Append(toasts, LoadingToast)
            /\ timers' = timers \cup {[id |-> id, form |-> form]}
    IN  /\ After(validateForm(form))
        /\ UNCHANGED <<form, formIsInitial, envVars, callVars>>

handleSubmit_OnlyChecksFilled ==
    LET id == Len(toasts) + 1
        After(r) ==
            /\ Validated(r)
            /\ IF ~r.allFilled
               THEN UNCHANGED <<storage, toasts, timers>>
               ELSE /\ Len(toasts) < MaxSubmits
                    /\ storage' = setItem(storage, "user", JSONStringify(form))
                    /\ toasts' = Append(toasts, LoadingToast)
                    /\ timers' = timers \cup {[id |-> id, form |-> form]}
    IN  /\ After(validateForm(form))
        /\ UNCHANGED <<form, formIsInitial, envVars, callVars>>

\* handleSubmit: the form is not replaced, so no effect follows
handleSubmit ==
    LET id == Len(toasts) + 1
        \* the handler from line 203 on, r being what validateForm() returned
        After(r) ==
            /\ Validated(r)
            /\ IF ~r.allFilled \/ ~r.noErrors
               THEN UNCHANGED <<storage, toasts, timers>>
               ELSE /\ Len(toasts) < MaxSubmits
                    /\ storage' = setItem(storage, "user", JSONStringify(form))
                    /\ toasts' = Append(toasts, LoadingToast)
                    /\ timers' = timers \cup {[id |-> id, form |-> form]}
    IN  /\ After(validateForm(form))
        /\ UNCHANGED <<form, formIsInitial, envVars, callVars>>

setTimeoutCallback_KeepsEdits(timer) ==
    LET edited == form # timer.form
    IN  /\ timer \in timers
        /\ form' = IF edited THEN form ELSE initialState
        /\ formIsInitial' = IF edited THEN formIsInitial ELSE TRUE
        /\ toasts' = [toasts EXCEPT ![timer.id] = SuccessToast]
        /\ Validated(validateForm(IF edited THEN form ELSE initialState))
        /\ timers' = timers \ {timer}
        /\ UNCHANGED <<storage, envVars, callVars>>

\* The callback handed to setTimeout by handleSubmit, 300 ms later. It holds
\* the validateForm of the render that handled the submit, hence that render's
\* form (timer.form). setForm(initialState) leaves the state as it is when form
\* already is initialState, and then no effect on [form] follows the render.
setTimeoutCallback(timer) ==
    LET effectRuns == ~formIsInitial
    IN  /\ timer \in timers
        /\ form' = initialState
        /\ formIsInitial' = TRUE
        /\ toasts' = [toasts EXCEPT ![timer.id] = SuccessToast]
        /\ Validated(IF effectRuns
                     THEN validateForm(initialState)
                     ELSE validateForm(timer.form))
        /\ timers' = timers \ {timer}
        /\ UNCHANGED <<storage, envVars, callVars>>

-----------------------------------------------------------------------------
(* The form session *)

\* what the user can put in each field
FieldInputs(name) ==
    CASE name = "lastname" -> {<<>>, <<76, 105>>, <<76, 49>>}
      [] name = "firstname" -> {<<>>, <<65, 108>>, <<60, 98>>}
      [] name = "email" -> {<<>>, <<97, 64, 98, 46, 99, 100>>, <<97, 64, 98>>}
      [] name = "birth" -> {<<>>, <<49, 57, 57, 53, 45, 48, 53, 45, 49, 53>>, <<50, 48, 49, 48, 45, 48, 49, 45, 48, 49>>}
      [] name = "postCode" -> {<<>>, <<55, 53, 48, 48, 49>>, <<55, 53, 48, 48>>}
      [] name = "town" -> {<<>>, <<32>>, <<9, 65>>}

\* no function under test in a form session
Idle == [idle |-> NotCalled]

Init ==
    /\ now = DaysFromCivil(2026, 11, 4) * 24 + 10
    /\ tz = 0
    /\ arg = Undefined
    /\ out = Idle
    /\ FormMounted

Change == \E name \in FieldNames : \E value \in FieldInputs(name) : handleChange(name, value)
Blur == \E field \in FieldNames : onBlur(field)
Submit == handleSubmit
Complete == \E timer \in timers : setTimeoutCallback(timer)

Next == Change \/ Blur \/ Submit \/ Complete

Spec == Init /\ [][Next]_vars

\* setTimeout: the callback of a scheduled timer is called once its delay has
\* passed, and the component never clears a timer. The call of timer id is the
\* step that takes it out of the timers, which only setTimeoutCallback does.
TimerCalled(id) == \E timer \in timers : timer.id = id /\ timers' = timers \ {timer}
FairSpec == Spec /\ \A id \in 1..MaxSubmits : WF_timers(TimerCalled(id))

\* A session on the birth field: the date picker gives the empty value or a
\* date (1995-05-15, 2010-01-01, 1969-12-31, 2030-01-01); every other field is
\* empty or holds its accepted value
BirthSessionInputs(name) ==
    CASE name = "birth" ->
            {<<>>, <<49, 57, 57, 53, 45, 48, 53, 45, 49, 53>>,
             <<50, 48, 49, 48, 45, 48, 49, 45, 48, 49>>,
             <<49, 57, 54, 57, 45, 49, 50, 45, 51, 49>>,
             <<50, 48, 51, 48, 45, 48, 49, 45, 48, 49>>}
      [] name = "lastname" -> {<<>>, <<76, 105>>}
      [] name = "firstname" -> {<<>>, <<65, 108>>}
      [] name = "email" -> {<<>>, <<97, 64, 98, 46, 99, 100>>}
      [] name = "postCode" -> {<<>>, <<55, 53, 48, 48, 49>>}
      [] name = "town" -> {<<>>, <<9, 65>>}

ChangeBirth ==
    \E name \in FieldNames : \E value \in BirthSessionInputs(name) : handleChange(name, value)

NextBirth == ChangeBirth \/ Blur \/ Submit \/ Complete

SpecBirth == Init /\ [][NextBirth]_vars

-----------------------------------------------------------------------------
(* The validators called on their own, one input per behaviour *)

\* all strings of at most n code units over an alphabet
StringsOver(alphabet, n) == UNION {[1..k -> alphabet] : k \in 0..n}

\* values that are no string
NonStrings == {Undefined, Null, PlainObject, Num(0), Num(75001), InvalidDate}

\* the form is mounted and left alone while a validator is called
InitCall(fns) ==
    /\ out = [fn \in fns |-> NotCalled]
    /\ FormMounted

Call(fn, outcome) ==
    /\ out[fn] = NotCalled
    /\ out' = [out EXCEPT ![fn] = outcome]
    /\ UNCHANGED <<arg, envVars, formVars>>

\* validateAge: moments of the clock, time zones, birth dates around the
\* eighteenth anniversary
TimeZones == {0 - 5, 0, 2}
NowMoments ==
    {(DaysFromCivil(2025, 12, 25) + d) * 24 + h : d \in 0..SpanDays, h \in {0, 23}}
BirthMoments ==
    {(DaysFromCivil(2007, 12, 25) + d) * 24 + h : d \in 0..SpanDays, h \in {0, 23}}
AgeArgs ==
    {DateAt(t) : t \in BirthMoments \cup {now - 1, now, now + 1, now + 24 * 366}}
        \cup NonStrings \cup {Str(<<49, 57, 57, 53, 45, 48, 53, 45, 49, 53>>)}

InitAge ==
    /\ tz \in TimeZones
    /\ now \in NowMoments
    /\ arg \in AgeArgs
    /\ InitCall({"validateAge"})

CallValidateAge == Call("validateAge", validateAge(arg))
NextAge == CallValidateAge
SpecAge == InitAge /\ [][NextAge]_vars

\* validatePostCode: strings over '0', '7', 'A', ' ' and U+0663 (an
\* Arabic-Indic digit)
PostCodeAlphabet == {48, 55, 65, 32, 1635}
PostCodeArgs == {Str(s) : s \in StringsOver(PostCodeAlphabet, MaxPostLen)} \cup NonStrings

InitPostCode ==
    /\ tz = 0
    /\ now = 0
    /\ arg \in PostCodeArgs
    /\ InitCall({"validatePostCode"})

CallValidatePostCode == Call("validatePostCode", validatePostCode(arg))
NextPostCode == CallValidatePostCode
SpecPostCode == InitPostCode /\ [][NextPostCode]_vars

\* validateIdentity and validateTown on the same input: strings over 'a',
\* U+00E9 (e acute), U+00D7 (multiplication sign), '-', ' ', '1', '<', '>', '/'
NameAlphabet == {97, 233, 215, 45, 32, 49, 60, 62, 47}
NameArgs == {Str(s) : s \in StringsOver(NameAlphabet, MaxNameLen)} \cup NonStrings

InitNames ==
    /\ tz = 0
    /\ now = 0
    /\ arg \in NameArgs
    /\ InitCall({"validateIdentity", "validateTown"})

CallValidateIdentity == Call("validateIdentity", validateIdentity(arg))
CallValidateTown == Call("validateTown", validateTown(arg))
NextNames == CallValidateIdentity \/ CallValidateTown
SpecNames == InitNames /\ [][NextNames]_vars

\* validateEmail: every string over 'a', '1', '.', '_', '@', '/' up to the
\* bound, and the addresses of the tests with one code unit inserted, replaced
\* or removed
EmailAlphabet == {97, 49, 46, 95, 64, 47}
EditAlphabet == EmailAlphabet \cup {45, 65, 32}
EmailSeeds == {<<97, 64, 97, 46, 97, 97>>, <<116, 101, 115, 116, 64, 103, 109, 97, 105, 108, 46, 99, 111, 109>>, <<97, 95, 45, 46, 49, 64, 49, 45, 97, 46, 97, 46, 97, 97>>, <<47, 47, 116, 101, 115, 116, 64, 103, 109, 97, 105, 108, 46, 99, 111, 109>>}
Edits(s) ==
    {s}
    \cup {SubSeq(s, 1, k - 1) \o <<c>> \o SubSeq(s, k, Len(s)) :
            k \in 1..(Len(s) + 1), c \in EditAlphabet}
    \cup {[s EXCEPT ![k] = c] : k \in 1..Len(s), c \in EditAlphabet}
    \cup {SubSeq(s, 1, k - 1) \o SubSeq(s, k + 1, Len(s)) : k \in 1..Len(s)}
EmailArgs(n) ==
    {Str(s) : s \in StringsOver(EmailAlphabet, n)}
        \cup {Str(e) : e \in UNION {Edits(s) : s \in EmailSeeds}}
        \cup NonStrings

InitEmail ==
    /\ tz = 0
    /\ now = 0
    /\ arg \in EmailArgs(MaxEmailLen)
    /\ InitCall({"validateEmail"})

CallValidateEmail == Call("validateEmail", validateEmail(arg))
NextEmail == CallValidateEmail
SpecEmail == InitEmail /\ [][NextEmail]_vars

\* calculateAge: the subjects of the tests, persons whose birth is built with
\* new Date(year, monthIndex, day) for every day argument up to the bound, and
\* persons whose birth is a given moment; the reference date is the clock
CalcYears == {1969, 1970, 1991, 2000, 2008, 2026, 2027}
CalcMoments ==
    {DaysFromCivil(2026, 12, 1) * 24, DaysFromCivil(2026, 2, 28) * 24 + 23,
     DaysFromCivil(2024, 2, 29) * 24 + 12}
BuiltPersons ==
    {[tag |-> "newPerson", year |-> y, monthIndex |-> m, day |-> d] :
        y \in CalcYears, m \in 0..11, d \in 1..MaxDayArg}
CalcArgs ==
    {Undefined, Null, Num(0), Num(5), PlainObject, DateAt(0)}
        \cup {Person(v) : v \in NonStrings \cup {Str(<<>>)}}
        \cup {Person(DateAt(t)) :
                t \in {DaysFromCivil(1991, 11, 7) * 24, DaysFromCivil(1970, 1, 1) * 24,
                       DaysFromCivil(1969, 12, 31) * 24 + 23, now - 1, now, now + 1}}
        \cup BuiltPersons

\* the value of the argument expression
Subject(a) ==
    IF a.tag = "newPerson" THEN Person(NewDateFields(a.year, a.monthIndex, a.day)) ELSE a

InitCalc ==
    /\ tz \in TimeZones
    /\ now \in CalcMoments
    /\ arg \in CalcArgs
    /\ InitCall({"calculateAge"})

CallCalculateAge == Call("calculateAge", calculateAge(Subject(arg), DateAt(now)))
NextCalc == CallCalculateAge
SpecCalc == InitCalc /\ [][NextCalc]_vars


\* Both copies of calculateAge called on one subject at one moment, the copy
\* that takes a reference date being handed the moment the clock shows
InitCopies ==
    /\ tz \in TimeZones
    /\ now \in CalcMoments
    /\ arg \in CalcArgs
    /\ InitCall({"calculateAge", "moduleCalculateAge"})

CallModuleCalculateAge == Call("moduleCalculateAge", moduleCalculateAge(Subject(arg)))
NextCopies == CallCalculateAge \/ CallModuleCalculateAge
SpecCopies == InitCopies /\ [][NextCopies]_vars


\* The five validators run twice on one input, the clock moving on between
\* the two runs: each run records the moment it read and every outcome
RerunMoments ==
    {DaysFromCivil(2026, 11, 4) * 24 + 10, DaysFromCivil(2026, 11, 5) * 24 + 10,
     DaysFromCivil(2026, 12, 1) * 24}
RerunArgs ==
    NonStrings
        \cup {Str(s) : s \in EmailSeeds \cup {<<>>, <<76, 105>>, <<60, 98>>, <<9, 65>>,
                                             <<55, 53, 48, 48, 49>>}}
        \cup {DateAt(t) : t \in {DaysFromCivil(2008, 11, 5) * 24, DaysFromCivil(2008, 11, 4) * 24,
                                 DaysFromCivil(1995, 5, 15) * 24, DaysFromCivil(2026, 11, 4) * 24 + 23,
                                 DaysFromCivil(2030, 1, 1) * 24}}

RunValidators(v) ==
    [validateAge |-> validateAge(v),
     validatePostCode |-> validatePostCode(v),
     validateIdentity |-> validateIdentity(v),
     validateEmail |-> validateEmail(v),
     validateTown |-> validateTown(v)]

InitRerun ==
    /\ tz \in TimeZones
    /\ now \in RerunMoments
    /\ arg \in RerunArgs
    /\ InitCall({"first", "second"})

FirstRun == Call("first", [at |-> now, result |-> RunValidators(arg)])

SecondRun ==
    /\ out["first"] # NotCalled
    /\ Call("second", [at |-> now, result |-> RunValidators(arg)])

\* time passes between the two runs
Tick ==
    /\ out["first"] # NotCalled
    /\ out["second"] = NotCalled
    /\ \E t \in RerunMoments : t > now /\ now' = t
    /\ UNCHANGED <<tz, callVars, formVars>>

NextRerun == FirstRun \/ SecondRun \/ Tick
SpecRerun == InitRerun /\ [][NextRerun]_vars

-----------------------------------------------------------------------------
(* Properties of validateAge, under SpecAge *)

\* the local calendar date of a time value, read off the day number
LocalDate(t) == CivilFromDays(LocalDay(t))

\* the calendar date a is on or after the calendar date b
OnOrAfter(a, b) ==
    \/ a.year > b.year
    \/ a.year = b.year /\ a.month > b.month
    \/ a.year = b.year /\ a.month = b.month /\ a.day >= b.day

\* the input is a well-formed Date that is not after the clock
PastDate(v) == v.tag = "date" /\ ~v.nan /\ v.time <= now

\* the eighteenth anniversary of the birth is today or earlier
Eighteen(v) ==
    LET b == LocalDate(v.time)
    IN  OnOrAfter(LocalDate(now), [year |-> b.year + 18, month |-> b.month, day |-> b.day])

\* C4: for a well-formed birth date not after now, validateAge fails with
\* INVALID_AGE exactly when fewer than 18 anniversaries (by month, then day,
\* the anniversary day counting) have occurred, and returns otherwise; a birth
\* on today's month and day 18 years ago is accepted, a birth the day after
\* that is rejected, and a 29 February birth is rejected on 28 February of
\* its eighteenth year.
C4_AgeThreshold ==
    LET o == out["validateAge"]
        n == LocalDate(now)
    IN  (o # NotCalled /\ PastDate(arg)) =>
            LET b == LocalDate(arg.time)
            IN  /\ (o.code = "INVALID_AGE") <=> ~Eighteen(arg)
                /\ Eighteen(arg) => o = Returned
                /\ (b.year = n.year - 18 /\ b.month = n.month /\ b.day = n.day)
                        => o = Returned
                /\ LocalDay(arg.time) = DaysFromCivil(n.year - 18, n.month, n.day) + 1
                        => o.code = "INVALID_AGE"
                /\ (b.month = 2 /\ b.day = 29 /\ n.month = 2 /\ n.day = 28
                        /\ n.year = b.year + 18)
                        => o.code = "INVALID_AGE"

\* a birth 18 years ago to the day has been accepted
C4_Witness ==
    /\ PastDate(arg)
    /\ out["validateAge"] = Returned
    /\ LocalDate(arg.time).year = LocalDate(now).year - 18
    /\ LocalDate(arg.time).month = LocalDate(now).month
    /\ LocalDate(arg.time).day = LocalDate(now).day

\* C5: validateAge fails with INVALID_DATE exactly when its input is no
\* well-formed Date or is strictly later than the clock; the moment now itself
\* and every earlier one never give INVALID_DATE, and a future date gives
\* INVALID_DATE, not INVALID_AGE.
C5_InvalidDate ==
    LET o == out["validateAge"]
    IN  o # NotCalled =>
            /\ (o.code = "INVALID_DATE")
                    <=> (arg.tag # "date" \/ arg.nan \/ arg.time > now)
            /\ PastDate(arg) => o.code # "INVALID_DATE"

\* a date one tick after the clock has been rejected as INVALID_DATE
C5_Witness ==
    /\ arg.tag = "date" /\ ~arg.nan /\ arg.time = now + 1
    /\ out["validateAge"].code = "INVALID_DATE"

-----------------------------------------------------------------------------
(* Properties of validateIdentity and validateTown, under SpecNames *)

\* a Latin letter, an accented Latin letter (U+00C0 to U+00FF but the
\* multiplication and division signs), the hyphen
IsLatinLetter(c) == c \in (65..90) \cup (97..122)
IsAccentedLatinLetter(c) == c \in (192..255) \ {215, 247}
IsNameChar(c) == IsLatinLetter(c) \/ IsAccentedLatinLetter(c) \/ c = 45

\* s holds a '<' (the run of other code units after it may be empty)
HasOpenTag(s) == \E i \in 1..Len(s) : s[i] = 60

\* C6: on a string, validateIdentity's message is 'XSS detected' exactly when
\* the string holds a '<' followed by a run of code units other than '>';
\* that check wins over the character check, and a string with forbidden
\* characters and no '<' fails with 'Invalid characters in name'.
C6_XssPrecedence ==
    LET o == out["validateIdentity"]
    IN  (o # NotCalled /\ arg.tag = "string") =>
            /\ (o.message = "XSS detected") <=> HasOpenTag(arg.str)
            /\ ((\E i \in 1..Len(arg.str) : ~IsNameChar(arg.str[i]))
                    /\ ~HasOpenTag(arg.str))
                    => o.message = "Invalid characters in name"
            /\ o.message \in {"XSS detected", "Invalid characters in name"}
                    => o.code = "INVALID_IDENTITY"

\* '<' and a digit together have been reported as XSS
C6_Witness ==
    /\ arg = Str(<<60, 49>>)
    /\ out["validateIdentity"] = Throw("INVALID_IDENTITY", "XSS detected")

\* C7: validateIdentity returns exactly on the strings of one or more Latin
\* letters, accented Latin letters and hyphens; every other input fails with
\* INVALID_IDENTITY.
C7_IdentityAccepts ==
    LET o == out["validateIdentity"]
    IN  o # NotCalled =>
            IF /\ arg.tag = "string"
               /\ Len(arg.str) >= 1
               /\ \A i \in 1..Len(arg.str) : IsNameChar(arg.str[i])
            THEN o = Returned
            ELSE o.code = "INVALID_IDENTITY"

\* a name with an accented letter and a hyphen has been accepted
C7_Witness ==
    /\ arg = Str(<<233, 45, 97>>)
    /\ out["validateIdentity"] = Returned

\* names joined by white space: name characters and white space, a name
\* character first and last
IsJoinedNames(s) ==
    /\ Len(s) >= 1
    /\ \A i \in 1..Len(s) : IsNameChar(s[i]) \/ IsWhiteSpace(s[i])
    /\ IsNameChar(s[1]) /\ IsNameChar(s[Len(s)])

\* C10: validateTown fails with INVALID_TOWN on every input that is no string
\* and on every string with a code unit that is no Latin letter, accented
\* Latin letter, hyphen or white space; it accepts what validateIdentity
\* accepts, and such names joined by white space.
C10_TownAccepts ==
    LET t == out["validateTown"]
        i == out["validateIdentity"]
    IN  t # NotCalled =>
            /\ arg.tag # "string" => t.code = "INVALID_TOWN"
            /\ (arg.tag = "string"
                    /\ \E k \in 1..Len(arg.str) :
                           ~(IsNameChar(arg.str[k]) \/ IsWhiteSpace(arg.str[k])))
                    => t.code = "INVALID_TOWN"
            /\ i = Returned => t = Returned
            /\ (arg.tag = "string" /\ IsJoinedNames(arg.str)) => t = Returned

\* two names joined by a space: rejected as an identity, accepted as a town
C10_Witness ==
    /\ arg = Str(<<97, 32, 233>>)
    /\ out["validateIdentity"].code = "INVALID_IDENTITY"
    /\ out["validateTown"] = Returned

-----------------------------------------------------------------------------
(* Property of validatePostCode, under SpecPostCode *)

\* C8: validatePostCode returns exactly on the strings of five ASCII digits;
\* every other input fails with INVALID_POST_CODE.
C8_PostCodeAccepts ==
    LET o == out["validatePostCode"]
    IN  o # NotCalled =>
            IF /\ arg.tag = "string"
               /\ Len(arg.str) = 5
               /\ \A i \in 1..Len(arg.str) : arg.str[i] \in 48..57
            THEN o = Returned
            ELSE o = Throw("INVALID_POST_CODE", "Invalid post code")

\* five digits have been accepted
C8_Witness ==
    /\ arg = Str(<<55, 55, 48, 48, 48>>)
    /\ out["validatePostCode"] = Returned

-----------------------------------------------------------------------------
(* Property of validateEmail, under SpecEmail *)

IsLetterOrDigit(c) == c \in (65..90) \cup (97..122) \cup (48..57)

\* s reads local@domain.tld: one '@', the top-level part after the last dot
IsAddress(s) ==
    LET ats == {k \in 1..Len(s) : s[k] = 64}
        dots == {k \in 1..Len(s) : s[k] = 46}
    IN  /\ Cardinality(ats) = 1
        /\ dots # {}
        /\ LET at == CHOOSE k \in ats : TRUE
               dot == CHOOSE k \in dots : \A m \in dots : m <= k
           IN  /\ at >= 2
               /\ \A k \in 1..(at - 1) : IsLetterOrDigit(s[k]) \/ s[k] \in {46, 95, 45}
               /\ dot >= at + 2
               /\ \A k \in (at + 1)..(dot - 1) : IsLetterOrDigit(s[k]) \/ s[k] \in {46, 45}
               /\ Len(s) - dot >= 2
               /\ \A k \in (dot + 1)..Len(s) : IsLatinLetter(s[k])

\* C9: validateEmail returns exactly on the strings that read, from the first
\* code unit to the last, local@domain.tld (local: letters, digits, '.', '_',
\* '-'; domain: letters, digits, '.', '-'; tld: two or more letters after the
\* last dot); every other input fails with INVALID_EMAIL.
C9_EmailAccepts ==
    LET o == out["validateEmail"]
    IN  o # NotCalled =>
            IF arg.tag = "string" /\ IsAddress(arg.str)
            THEN o = Returned
            ELSE o = Throw("INVALID_EMAIL", "Invalid email format")

\* the address of the tests has been accepted
C9_Witness ==
    /\ arg = Str(<<116, 101, 115, 116, 64, 103, 109, 97, 105, 108, 46, 99, 111, 109>>)
    /\ out["validateEmail"] = Returned

-----------------------------------------------------------------------------
(* Properties of repeated runs, under SpecRerun *)

BothRun == out["first"] # NotCalled /\ out["second"] # NotCalled

Accepts(run, fn) == out[run].result[fn] = Returned

-----------------------------------------------------------------------------
(* Properties of calculateAge, under SpecCalc *)

\* the outcome is a returned age
IsAge(o) == "num" \in DOMAIN o

\* the subject is an object (absent and primitive subjects are not)
IsObject(p) == p.tag \in {"object", "date"}

\* the value is a Date holding a time value
WellFormedDate(v) == v.tag = "date" /\ ~v.nan

\* C11: calculateAge fails with the message of the first check that rejects,
\* in the order: no subject -> 'missing param p'; a subject without a birth
\* attribute -> 'missing birth field'; a birth that is no well-formed Date ->
\* 'birth must be a valid Date'; a birth year before 1970 or a birth after
\* the reference date -> 'invalid date'. None of the first three messages is
\* raised in any other case.
C11_FailureOrder ==
    LET o == out["calculateAge"]
        p == Subject(arg)
    IN  o # NotCalled /\ (p.tag \in {"undefined", "null"} \/ IsObject(p)) =>
            IF ~IsObject(p) THEN o = NewError("missing param p")
            ELSE IF "birth" \notin DOMAIN p THEN o = NewError("missing birth field")
            ELSE IF ~WellFormedDate(p.birth) THEN o = NewError("birth must be a valid Date")
            ELSE IF LocalDate(p.birth.time).year < 1970 \/ p.birth.time > now
            THEN o = NewError("invalid date")
            ELSE o \notin {NewError("missing param p"), NewError("missing birth field"),
                           NewError("birth must be a valid Date")}

\* a subject whose birth attribute is present but undefined fails on the type
\* of the birth, not on its absence
C11_Witness ==
    /\ arg = Person(Undefined)
    /\ out["calculateAge"] = NewError("birth must be a valid Date")

\* C12: calculateAge fails with 'invalid date' when the birth date is built
\* from a month and day that do not exist in the calendar (30 February,
\* 31 April).
C12_NonexistentDayRejected ==
    LET o == out["calculateAge"]
    IN  /\ o # NotCalled
        /\ arg.tag = "newPerson"
        /\ arg.day > DaysInMonth(arg.year, arg.monthIndex + 1)
        => o = NewError("invalid date")

\* C13: for every accepted birth b and reference date r the result is
\* r.year - b.year, minus one when r's (month, day) is before b's (month,
\* day), the anniversary day counting as occurred.
C13_AgeFormula ==
    LET o == out["calculateAge"]
    IN  o # NotCalled /\ IsAge(o) =>
            LET b == LocalDate(Subject(arg).birth.time)
                r == LocalDate(now)
                before == r.month < b.month \/ (r.month = b.month /\ r.day < b.day)
            IN  o.num = r.year - b.year - (IF before THEN 1 ELSE 0)

\* birth 1991-11-07 against the reference 2026-12-01 has given 35
C13_Witness ==
    /\ arg = Person(DateAt(DaysFromCivil(1991, 11, 7) * 24))
    /\ now = DaysFromCivil(2026, 12, 1) * 24
    /\ out["calculateAge"] = Num(35)

\* C21: for every birth date both copies accept and the same reference
\* instant, the age from the elapsed milliseconds (UTC year of the Date built
\* from now - birth, less 1970) equals the age from the calendar fields (year
\* difference, less one before the anniversary).
C21_CopiesAgreeOnAge ==
    LET injected == out["calculateAge"]
        clocked == out["moduleCalculateAge"]
    IN  "moduleCalculateAge" \in DOMAIN out /\ IsAge(injected) /\ IsAge(clocked) =>
            clocked.num = injected.num

\* born 1991-03-01, at noon of 2024-02-29 UTC: 32 by the calendar fields, 33
\* by the elapsed milliseconds
C21_Disagreement ==
    /\ tz = 0
    /\ now = DaysFromCivil(2024, 2, 29) * 24 + 12
    /\ arg = [tag |-> "newPerson", year |-> 1991, monthIndex |-> 2, day |-> 1]
    /\ "moduleCalculateAge" \in DOMAIN out
    /\ out["calculateAge"] = Num(32)
    /\ out["moduleCalculateAge"] = Num(33)

\* the subject holds a well-formed birth whose local year is before 1970
BornBefore1970(p) ==
    /\ IsObject(p)
    /\ "birth" \in DOMAIN p
    /\ WellFormedDate(p.birth)
    /\ LocalDate(p.birth.time).year < 1970

\* C22 as stated: the copy that computes the age from the elapsed
\* milliseconds has no check of the year, so it returns an age for a birth
\* date whose year is before 1970.
C22_ClockedCopyAcceptsBefore1970 ==
    "moduleCalculateAge" \in DOMAIN out /\ out["moduleCalculateAge"] # NotCalled
        /\ BornBefore1970(Subject(arg)) =>
            IsAge(out["moduleCalculateAge"])

\* C22: the two copies carry the same checks: on one subject and one instant
\* either both return an age or both fail with the same message, and both
\* fail with 'invalid date' on a birth date whose year is before 1970.
C22_CopiesShareGuards ==
    LET injected == out["calculateAge"]
        clocked == out["moduleCalculateAge"]
    IN  "moduleCalculateAge" \in DOMAIN out /\ injected # NotCalled /\ clocked # NotCalled =>
            /\ IsAge(clocked) <=> IsAge(injected)
            /\ ~IsAge(injected) => clocked = injected
            /\ BornBefore1970(Subject(arg)) => clocked = NewError("invalid date")

\* new Date(1969, 11, 31) has failed with 'invalid date' in both copies
C22_Witness ==
    /\ arg = [tag |-> "newPerson", year |-> 1969, monthIndex |-> 11, day |-> 31]
    /\ "moduleCalculateAge" \in DOMAIN out
    /\ out["calculateAge"] = NewError("invalid date")
    /\ out["moduleCalculateAge"] = NewError("invalid date")

-----------------------------------------------------------------------------
(* Claims about the form *)

\* a hexadecimal digit's value, or -1
HexValue(c) ==
    CASE c >= 48 /\ c <= 57 -> c - 48
      [] c >= 97 /\ c <= 102 -> c - 87
      [] c >= 65 /\ c <= 70 -> c - 55
      [] OTHER -> 0 - 1

\* JSON.parse reading a string whose opening quote is before t[k]: the code
\* units read so far are acc. A raw control character, an unknown escape or a
\* missing closing quote is a SyntaxError (ok = FALSE).
RECURSIVE ReadJSONString(_, _, _)
ReadJSONString(t, k, acc) ==
    LET bad == [ok |-> FALSE, value |-> <<>>, next |-> k] IN
    IF k > Len(t) THEN bad
    ELSE IF t[k] = 34 THEN [ok |-> TRUE, value |-> acc, next |-> k + 1]
    ELSE IF t[k] < 32 THEN bad
    ELSE IF t[k] # 92 THEN ReadJSONString(t, k + 1, Append(acc, t[k]))
    ELSE IF k + 1 > Len(t) THEN bad
    ELSE LET e == t[k + 1] IN
         IF e = 117
         THEN IF /\ k + 5 <= Len(t)
                 /\ \A j \in (k + 2)..(k + 5) : HexValue(t[j]) >= 0
              THEN ReadJSONString(t, k + 6,
                      Append(acc, HexValue(t[k + 2]) * 4096 + HexValue(t[k + 3]) * 256
                                    + HexValue(t[k + 4]) * 16 + HexValue(t[k + 5])))
              ELSE bad
         ELSE LET unit == CASE e = 34 -> 34
                            [] e = 92 -> 92
                            [] e = 47 -> 47
                            [] e = 98 -> 8
                            [] e = 102 -> 12
                            [] e = 110 -> 10
                            [] e = 114 -> 13
                            [] e = 116 -> 9
                            [] OTHER -> 0 - 1
              IN  IF unit < 0 THEN bad
                  ELSE ReadJSONString(t, k + 2, Append(acc, unit))

\* JSON.parse reading the members of an object from t[k] on, after those of
\* acc: "key":"value" pairs separated by commas, up to the closing brace
RECURSIVE ReadJSONMembers(_, _, _)
ReadJSONMembers(t, k, acc) ==
    LET bad == [ok |-> FALSE, members |-> <<>>] IN
    IF k > Len(t) \/ t[k] # 34 THEN bad
    ELSE LET key == ReadJSONString(t, k + 1, <<>>) IN
         IF ~key.ok \/ key.next > Len(t) \/ t[key.next] # 58
            \/ key.next + 1 > Len(t) \/ t[key.next + 1] # 34
         THEN bad
         ELSE LET val == ReadJSONString(t, key.next + 2, <<>>)
                  all == Append(acc, [key |-> key.value, value |-> val.value])
              IN  IF ~val.ok \/ val.next > Len(t) THEN bad
                  ELSE IF t[val.next] = 125
                       THEN [ok |-> val.next = Len(t), members |-> all]
                  ELSE IF t[val.next] = 44 THEN ReadJSONMembers(t, val.next + 1, all)
                  ELSE bad

\* JSON.parse(text) for the text of an object whose values are strings, written
\* without white space: the members in the order read
JSONParse(t) ==
    IF Len(t) < 2 \/ t[1] # 123 THEN [ok |-> FALSE, members |-> <<>>]
    ELSE IF t = <<123, 125>> THEN [ok |-> TRUE, members |-> <<>>]
    ELSE ReadJSONMembers(t, 2, <<>>)

\* a field's value is non-empty after trimming and its own validator accepts it
FieldIsValid(name, value) ==
    /\ Trim(value) # <<>>
    /\ CASE name \in {"lastname", "firstname"} -> validateIdentity(Str(value)) = Returned
         [] name = "email" -> validateEmail(Str(value)) = Returned
         [] name = "birth" -> validateAge(NewDate(value)) = Returned
         [] name = "postCode" -> validatePostCode(Str(value)) = Returned
         [] name = "town" -> validateTown(Str(value)) = Returned

Submittable(f) == \A name \in FieldNames : FieldIsValid(name, f[name])

\* C1: in every state reached by changes, blurs, submits and delayed
\* completions, the submit button is enabled (isValid) if and only if all six
\* fields are non-empty after trimming and each passes its own validator.
C1_SubmittableIff == isValid <=> Submittable(form)

\* the submit button is enabled on the form a completion has emptied
C1_EnabledOnEmptyForm ==
    /\ isValid
    /\ form = initialState
    /\ timers = {}
    /\ Len(toasts) = 2

\* the error a field shows: its entry of errors, if it has one
ErrorOf(errs, name) == IF name \in DOMAIN errs THEN errs[name] ELSE NoError

\* the birth value reads as a date that is not in the future, at least 18
\* years back and not before 1970
BirthInRange(value) ==
    LET d == NewDate(value)
    IN  /\ WellFormedDate(d)
        /\ d.time <= now
        /\ Eighteen(d)
        /\ LocalDate(d.time).year >= 1970

\* C14: the form accepts a birth date (shows no error for it) only if it is a
\* valid date, not in the future, at least 18 years old and after 1970; a
\* birth date before 1970 makes the form non-submittable.
C14_BirthAfter1970 ==
    LET value == form["birth"]
    IN  /\ Trim(value) # <<>> /\ ErrorOf(errors, "birth") = NoError => BirthInRange(value)
        /\ WellFormedDate(NewDate(value)) /\ LocalDate(NewDate(value).time).year < 1970
            => ~isValid

\* a step that is an accepted submit: its pending indication appears
AcceptedSubmit == Len(toasts') = Len(toasts) + 1

\* the text under "user" reads back as exactly the six keys with the values of f
ReadsBackAs(store, f) ==
    /\ DOMAIN store = {"user"}
    /\ LET parsed == JSONParse(store["user"])
       IN  /\ parsed.ok
           /\ Len(parsed.members) = Len(Fields)
           /\ \A name \in FieldNames :
                \E k \in 1..Len(parsed.members) :
                    /\ parsed.members[k].key = KeyUnits(name)
                    /\ parsed.members[k].value = f[name]

\* C2: every accepted submit writes under the key "user" a record with exactly
\* the six keys lastname, firstname, email, birth, postCode, town whose values
\* are the field values held at the moment of the submit, code unit for code
\* unit.
C2_StoredRecord == [][AcceptedSubmit => ReadsBackAs(storage', form)]_vars

\* a record whose town holds a tab has been stored and its completion is pending
C2_Witness ==
    /\ "user" \in DOMAIN storage
    /\ timers # {}
    /\ \E timer \in timers :
          /\ ReadsBackAs(storage, timer.form)
          /\ \E k \in 1..Len(timer.form["town"]) : timer.form["town"][k] = 9

\* a completion is pending for the submit that showed toast id
Pending(id) == \E timer \in timers : timer.id = id

\* the submit that showed toast id has been reported as saved
Succeeded(id) == id <= Len(toasts) /\ toasts[id] = SuccessToast

\* C16: a submit issued while an earlier submit's completion is pending is
\* processed like the first (the record is stored again and one more
\* completion is scheduled, the pending ones staying scheduled); a scheduled
\* completion leaves the timers only by firing, and every one fires.
C16_NoResubmissionGuard ==
    /\ [][timers # {} /\ Submittable(form) /\ Len(toasts) < MaxSubmits /\ handleSubmit =>
            /\ ReadsBackAs(storage', form)
            /\ toasts' = Append(toasts, LoadingToast)
            /\ timers \subseteq timers'
            /\ \E timer \in timers' \ timers :
                    timers' = timers \cup {timer} /\ timer.id = Len(toasts')]_vars
    /\ [][\A timer \in timers :
            timer \notin timers' => toasts'[timer.id] = SuccessToast]_vars
    /\ \A id \in 1..MaxSubmits : Pending(id) ~> (~Pending(id) /\ Succeeded(id))

\* two completions are pending at once
C16_Witness ==
    /\ Cardinality(timers) = 2
    /\ "user" \in DOMAIN storage
    /\ \A id \in 1..2 : toasts[id] = LoadingToast

\* C17: a submit on a form that is not submittable leaves the stored value,
\* the field values, the toasts and the scheduled completions as they were;
\* only the per-field messages are set.
C17_RejectedSubmitFrame ==
    [][~Submittable(form) /\ handleSubmit =>
            /\ storage' = storage
            /\ form' = form
            /\ toasts' = toasts
            /\ timers' = timers
            /\ \E name \in FieldNames : ErrorOf(errors', name) # NoError]_vars

\* a partly filled form whose messages are shown, nothing stored, shown or scheduled
C17_Witness ==
    /\ form # initialState
    /\ ~Submittable(form)
    /\ \E name \in FieldNames : ErrorOf(errors, name) # NoError
    /\ ~isValid
    /\ "user" \notin DOMAIN storage
    /\ toasts = <<>>
    /\ timers = {}

\* what the validator of a field does with the value typed in it
ValidatorOutcome(name, value) ==
    CASE name \in {"lastname", "firstname"} -> validateIdentity(Str(value))
      [] name = "email" -> validateEmail(Str(value))
      [] name = "birth" -> validateAge(NewDate(value))
      [] name = "postCode" -> validatePostCode(Str(value))
      [] name = "town" -> validateTown(Str(value))

\* the error entry a value calls for, taken alone
EntryFor(name, value) ==
    IF Trim(value) = <<>> THEN "This field is required"
    ELSE IF ValidatorOutcome(name, value) = Returned THEN NoError
    ELSE ValidatorOutcome(name, value).message

\* C18: after every field change or blur and the re-validation that follows,
\* the error entry of each of the six fields is 'This field is required' if
\* its value is empty after trimming, the failure message of its validator if
\* the value is rejected, and no error if it is accepted.
C18_EntriesFollowValues ==
    [][Change \/ Blur =>
            \A name \in FieldNames : ErrorOf(errors', name) = EntryFor(name, form'[name])]_vars

\* after an edit, one field is required, one rejected and one accepted, each
\* with its own entry
C18_Witness ==
    /\ form # initialState
    /\ ErrorOf(errors, "lastname") = "This field is required"
    /\ form["firstname"] # <<>> /\ ErrorOf(errors, "firstname") = validateIdentity(Str(form["firstname"])).message
    /\ form["email"] # <<>> /\ ErrorOf(errors, "email") = NoError
    /\ form["town"] = <<32>> /\ ErrorOf(errors, "town") = "This field is required"

\* the parsed text holds a member for each of the six keys, and each value is
\* non-empty after trimming and accepted by the validator of its field
IsValidRecord(parsed) ==
    /\ parsed.ok
    /\ \A name \in FieldNames :
            \E k \in 1..Len(parsed.members) :
                /\ parsed.members[k].key = KeyUnits(name)
                /\ FieldIsValid(name, parsed.members[k].value)

\* C19: in every reachable state the value stored under "user" is either
\* never written or a record whose six fields are all non-empty after trimming
\* and accepted by their validators; an empty or invalid record is never
\* stored, even when the submit button is enabled.
C19_OnlyValidRecordsStored ==
    "user" \in DOMAIN storage => IsValidRecord(JSONParse(storage["user"]))

\* the submit button is enabled on an empty form, a valid record being stored
C19_Witness ==
    /\ isValid
    /\ ~Submittable(form)
    /\ "user" \in DOMAIN storage
    /\ IsValidRecord(JSONParse(storage["user"]))

\* C20: a delayed completion that fires empties the six fields whatever was
\* typed since its submit, and no step that changes the fields changes the
\* stored record: when the completion of the latest submit fires, the record
\* stored is still the one that submit wrote.
C20_EditsWhilePendingDiscarded ==
    [][/\ \A timer \in timers :
            timer \notin timers' =>
                /\ form' = initialState
                /\ storage' = storage
                /\ timer.id = Len(toasts) => ReadsBackAs(storage', timer.form)
       /\ form' # form => storage' = storage]_vars

\* a field was changed while the completion of a submit is pending, and the
\* stored record is the submitted one
C20_Witness ==
    \E timer \in timers :
        /\ timers = {timer}
        /\ form # timer.form
        /\ form # initialState
        /\ ReadsBackAs(storage, timer.form)
        /\ ~ReadsBackAs(storage, form)

\* a step that is the delayed completion of the submit that showed toast id
CompletionOf(id) ==
    \E timer \in timers : timer.id = id /\ timers' = timers \ {timer}

\* C3: after every accepted submit the pending indication is shown before the
\* success indication, and once the delayed completion has fired the success
\* indication is shown, all six fields are empty and submission is disabled
\* again.
C3_SubmitCompletion ==
    [][/\ AcceptedSubmit => toasts'[Len(toasts')] = LoadingToast
       /\ \A id \in 1..Len(toasts) :
            CompletionOf(id) =>
                /\ toasts[id] = LoadingToast
                /\ toasts'[id] = SuccessToast
                /\ \A name \in FieldNames : form'[name] = <<>>
                /\ ~isValid']_vars

====
